---- MODULE Spec2Model ----
(***************************************************************************)
(* A model of voice-to-md: the diarizer (src/src/diarizer.py), the         *)
(* transcript/speaker alignment and the menu-bar application's recording   *)
(* and processing control flow (src/src/main.py, src/src/recorder.py).     *)
(*                                                                         *)
(* Time.  The code computes seconds as sample_index / SAMPLE_RATE.  The    *)
(* model keeps every instant as the integer number of samples (one tick =  *)
(* 1/SAMPLE_RATE s), so start_sec = i / SAMPLE_RATE is the tick count i,   *)
(* duration = len(audio) / sr is len(audio), and 1.0 s is SAMPLE_RATE      *)
(* ticks.  Division by the positive constant SAMPLE_RATE is injective and  *)
(* monotone on these integers, so =, <, <= and min agree with the code's.  *)
(***************************************************************************)
EXTENDS Integers, Sequences, FiniteSets, TLC

VARIABLES
    \* ---- alignment (main.py, _assign_speakers called on its own)
    aPc,                    \* "off" | "input" | "done"
    transcription_segments, \* the TranscriptionSegment list handed in
    speaker_segments,       \* the speaker segment list handed in
    merged_segments,        \* the list _assign_speakers returned
    \* ---- one call of Diarizer.diarize (diarizer.py)
    dPc,            \* position in diarize: "off", the line about to run
                    \* ("ensure", "load", "chunk", "branch", "embed",
                    \* "cluster", "merge"), "done" (returned), "raised"
    audio_file,     \* number of samples the file at audio_path decodes to
    _classifier,    \* None or "loaded"
    audio_len,      \* len(audio)
    duration,       \* len(audio) / sr, in ticks
    chunks,         \* per kept chunk: raw and padded sample count
    chunk_times,    \* per kept chunk: [start, end]
    embeddings,     \* number of embeddings appended so far
    labels,         \* the cluster label of each chunk
    label_map,      \* raw label -> display label
    segments,       \* the returned list of <<start, end, speaker>>
    encode_calls,   \* calls of self._classifier.encode_batch
    fit_calls,      \* calls of MeanShift.fit_predict
    fit_raised,     \* whether fit_predict raised
    \* ---- the application (main.py, recorder.py)
    mPc,            \* the main (UI) thread: "off", "idle" (in the run loop),
                    \* "m<line>" (inside a click handler, about to run that
                    \* line), "alert" (inside a modal rumps.alert), "quit"
    _is_recording,  \* VoiceToMdApp._is_recording
    _is_processing, \* VoiceToMdApp._is_processing
    title,          \* VoiceToMdApp.title
    rec,            \* the Recorder: is_recording, _stream, _audio_data
    temp_file,      \* samples in the wav file at TEMP_AUDIO_PATH, or NoFile
    threads,        \* the live _process_audio threads, each with its
                    \* position and locals
    last_click      \* what the last click on the toggle came to

alignVars == <<aPc, transcription_segments, speaker_segments, merged_segments>>
diarVars == <<dPc, audio_file, _classifier, audio_len, duration, chunks,
              chunk_times, embeddings, labels, label_map, segments,
              encode_calls, fit_calls, fit_raised>>
appVars == <<mPc, _is_recording, _is_processing, title, rec, temp_file,
             threads, last_click>>
vars == <<alignVars, diarVars, appVars>>

(***************************************************************************)
(* Program constants (src/src/config.py).                                  *)
(***************************************************************************)
SAMPLE_RATE == 16000
CHUNK_DURATION_SEC == 10
MIN_CHUNK_SEC == 2

(***************************************************************************)
(* Bounds of the model.                                                    *)
(***************************************************************************)
MaxSpans == 2   \* transcript spans handed to _assign_speakers
MaxSegs == 2    \* speaker segments handed to _assign_speakers
MaxTime == 2    \* the instants of the aligner's inputs are 0..MaxTime
MaxFullChunks == 2  \* an audio buffer holds at most this many full windows
                    \* and then one partial window
MaxLabel == 2   \* raw cluster labels are 0..MaxLabel
MaxRecWindows == 1  \* a recording holds at most this many full windows and
                    \* one or two seconds more
MaxThreads == 2 \* _process_audio threads alive at once

\* TEMP_AUDIO_PATH does not exist (main.py 223)
NoFile == -1

Min(a, b) == IF a <= b THEN a ELSE b

\* f"Speaker {i + 1}" for the 1-based number k = i + 1
SpeakerName(k) == "Speaker " \o ToString(k)

(***************************************************************************)
(* _assign_speakers (main.py 155-175).                                     *)
(***************************************************************************)
\* the inner loop, lines 164-168: the first segment in list order whose
\* [spk_start, spk_end) holds trans_start, else the initial "Unknown"
RECURSIVE FirstMatch_lastWins(_, _, _)
FirstMatch_lastWins(trans_start, segs, k) ==
    IF k > Len(segs) THEN "Unknown"
    ELSE LET rest == FirstMatch_lastWins(trans_start, segs, k + 1)
         IN  IF segs[k][1] <= trans_start /\ trans_start < segs[k][2]
                /\ rest = "Unknown"
             THEN segs[k][3]
             ELSE rest

RECURSIVE FirstMatch(_, _, _)
FirstMatch(trans_start, segs, k) ==
    IF k > Len(segs) THEN "Unknown"
    ELSE IF segs[k][1] <= trans_start /\ trans_start < segs[k][2]
         THEN segs[k][3]
         ELSE FirstMatch(trans_start, segs, k + 1)

\* the outer loop, lines 161-175: one appended dict per trans_seg
RECURSIVE AssignLoop(_, _, _, _)
AssignLoop(spans, segs, k, result) ==
    IF k > Len(spans) THEN result
    ELSE AssignLoop(spans, segs, k + 1,
            Append(result, [speaker |-> FirstMatch(spans[k].start, segs, 1),
                            start   |-> spans[k].start,
                            end     |-> spans[k].end,
                            text    |-> spans[k].text]))

_assign_speakers(spans, segs) == AssignLoop(spans, segs, 1, <<>>)

(***************************************************************************)
(* Diarizer.diarize (diarizer.py 28-113), as operators.                    *)
(***************************************************************************)
None == "None"

\* line 45
chunk_length == SAMPLE_RATE * CHUNK_DURATION_SEC

\* line 52: a window is kept when it has at least 2 s of samples
KeepWindow(n) == ~(n < SAMPLE_RATE * MIN_CHUNK_SEC)

\* line 59: end_sec = min((i + chunk_length) / SAMPLE_RATE, duration)
ChunkEnd_unclamped(i, dur) == i + chunk_length
ChunkEnd(i, dur) == Min(i + chunk_length, dur)

\* lines 49-60: for i in range(0, len(audio), chunk_length).  acc holds the
\* parallel lists: chunks (each chunk's raw and padded sample count) and
\* chunk_times
RECURSIVE ChunkLoop(_, _, _)
ChunkLoop(i, len, acc) ==
    IF i >= len THEN acc
    ELSE LET raw == Min(chunk_length, len - i)     \* len(audio[i:i+chunk_length])
         IN  IF ~KeepWindow(raw)
             THEN ChunkLoop(i + chunk_length, len, acc)
             ELSE ChunkLoop(i + chunk_length, len,
                    [chunks |-> Append(acc.chunks,
                        [raw     |-> raw,
                         samples |-> IF raw < chunk_length
                                     THEN raw + (chunk_length - raw)
                                     ELSE raw]),
                     chunk_times |-> Append(acc.chunk_times,
                        [start |-> i, end |-> ChunkEnd(i, len)])])

Chunker(len) == ChunkLoop(0, len, [chunks |-> <<>>, chunk_times |-> <<>>])

\* line 89: sorted(set(labels))
SetOf(seq) == {seq[k] : k \in DOMAIN seq}
SetMin(S) == CHOOSE x \in S : \A y \in S : x <= y
RECURSIVE Sorted(_)
Sorted(S) == IF S = {} THEN <<>>
             ELSE <<SetMin(S)>> \o Sorted(S \ {SetMin(S)})

\* first-seen order of the distinct lbls (what line 89 does not do)
RECURSIVE FirstSeen(_, _, _)
FirstSeen(seq, k, acc) ==
    IF k > Len(seq) THEN acc
    ELSE FirstSeen(seq, k + 1,
            IF seq[k] \in SetOf(acc) THEN acc ELSE Append(acc, seq[k]))

UniqueLabels_firstSeen(lbls) == FirstSeen(lbls, 1, <<>>)
UniqueLabels(lbls) == Sorted(SetOf(lbls))

\* line 90: {label: f"Speaker {i + 1}" for i, label in enumerate(unique_labels)}
LabelMap_zeroBased(lbls) ==
    LET u == UniqueLabels(lbls)
    IN  [l \in SetOf(u) |-> SpeakerName((CHOOSE i \in DOMAIN u : u[i] = l) - 1)]
LabelMap(lbls) ==
    LET u == UniqueLabels(lbls)
    IN  [l \in SetOf(u) |-> SpeakerName(CHOOSE i \in DOMAIN u : u[i] = l)]

\* lines 100-107: one turn of the merge loop; cur is
\* (current_speaker, current_start, current_end), segs the list so far
MergeStep_noExtend(segs, cur, start, end, speaker) ==
    [segments |-> IF cur.speaker # None
                  THEN Append(segs, <<cur.start, cur.end, cur.speaker>>)
                  ELSE segs,
     cur |-> [speaker |-> speaker, start |-> start, end |-> end]]
MergeStep_keepEnd(segs, cur, start, end, speaker) ==
    IF speaker = cur.speaker
    THEN [segments |-> segs, cur |-> cur]
    ELSE [segments |-> IF cur.speaker # None
                       THEN Append(segs, <<cur.start, cur.end, cur.speaker>>)
                       ELSE segs,
          cur |-> [speaker |-> speaker, start |-> start, end |-> end]]
MergeStep(segs, cur, start, end, speaker) ==
    IF speaker = cur.speaker
    THEN [segments |-> segs, cur |-> [cur EXCEPT !.end = end]]
    ELSE [segments |-> IF cur.speaker # None
                       THEN Append(segs, <<cur.start, cur.end, cur.speaker>>)
                       ELSE segs,
          cur |-> [speaker |-> speaker, start |-> start, end |-> end]]

\* lines 93-113: the sweep over zip(chunk_times, labels) and the final append
RECURSIVE MergeLoop(_, _, _, _, _)
MergeLoop(times, lbls, k, segs, cur) ==
    IF k > Min(Len(times), Len(lbls))
    THEN IF cur.speaker # None
         THEN Append(segs, <<cur.start, cur.end, cur.speaker>>)
         ELSE segs
    ELSE LET st == MergeStep(segs, cur, times[k].start,
                             times[k].end, LabelMap(lbls)[lbls[k]])
         IN  MergeLoop(times, lbls, k + 1, st.segments, st.cur)

Merger(times, lbls) ==
    MergeLoop(times, lbls, 1, <<>>,
              [speaker |-> None, start |-> None, end |-> None])

\* line 64: the short-circuit return
TooShortResult_empty(dur) == <<>>
TooShortResult(dur) == <<<<0, dur, "Speaker 1">>>>

\* lines 117-118
get_speaker_count(segs) ==
    Cardinality({segs[k][3] : k \in DOMAIN segs})

(***************************************************************************)
(* The aligner on its own: any span list against any segment list.         *)
(***************************************************************************)
Times == 0..MaxTime

SeqsUpTo(S, n) == UNION {[1..k -> S] : k \in 0..n}

\* TranscriptionSegment(start, end, text) (transcriber.py 9-15); text is
\* non-empty (transcriber.py 59-60)
SpanShapes == {<<0, "hello">>, <<1, "hello">>, <<1, "world">>}
TranscriptSpans ==
    {[start |-> s, end |-> s + sh[1], text |-> sh[2]] :
        s \in Times, sh \in SpanShapes}

\* (start, end, label) tuples in any order, overlapping or not, degenerate
\* (start = end) included; the k-th segment of a list is labelled
\* "Speaker k", so the label tells which segment was selected
Intervals == {iv \in Times \X Times : iv[1] <= iv[2]}
SegmentLists ==
    {[k \in DOMAIN ivs |->
        <<ivs[k][1], ivs[k][2], SpeakerName(k)>>] :
     ivs \in SeqsUpTo(Intervals, MaxSegs)}

AlignOff ==
    /\ aPc = "off"
    /\ transcription_segments = <<>>
    /\ speaker_segments = <<>>
    /\ merged_segments = <<>>

DiarOff ==
    /\ dPc = "off"
    /\ audio_file = 0
    /\ _classifier = None
    /\ audio_len = 0
    /\ duration = 0
    /\ chunks = <<>>
    /\ chunk_times = <<>>
    /\ embeddings = 0
    /\ labels = <<>>
    /\ label_map = <<>>
    /\ segments = <<>>
    /\ encode_calls = 0
    /\ fit_calls = 0
    /\ fit_raised = FALSE

AppOff ==
    /\ mPc = "off"
    /\ _is_recording = FALSE
    /\ _is_processing = FALSE
    /\ title = "Voice"
    /\ rec = [is_recording |-> FALSE, _stream |-> None, _audio_data |-> 0]
    /\ temp_file = NoFile
    /\ threads = <<>>
    /\ last_click = None

InitAlign ==
    /\ DiarOff
    /\ AppOff
    /\ aPc = "input"
    /\ transcription_segments \in SeqsUpTo(TranscriptSpans, MaxSpans)
    /\ speaker_segments \in SegmentLists
    /\ merged_segments = <<>>

AssignSpeakers ==
    /\ aPc = "input"
    /\ merged_segments' =
          _assign_speakers(transcription_segments, speaker_segments)
    /\ aPc' = "done"
    /\ UNCHANGED <<transcription_segments, speaker_segments, diarVars, appVars>>

NextAlign == AssignSpeakers

SpecAlign == InitAlign /\ [][NextAlign]_vars

(***************************************************************************)
(* One call of Diarizer.diarize, step by step.  The inputs are the decoded *)
(* length of the audio file and what the two libraries do: encode_batch    *)
(* and fit_predict return or raise, and fit_predict returns any labelling. *)
(***************************************************************************)
Remainders == {0, 1, SAMPLE_RATE,
               SAMPLE_RATE * MIN_CHUNK_SEC - 1, SAMPLE_RATE * MIN_CHUNK_SEC,
               SAMPLE_RATE * MIN_CHUNK_SEC + 1, chunk_length - 1}
AudioLens == {n * chunk_length + r : n \in 0..MaxFullChunks, r \in Remainders}
RawLabels == 0..MaxLabel

\* line 79
SingleLabels == <<0>>

\* line 86: [0] * len(embeddings)
FallbackLabels_distinct(n) == [k \in 1..n |-> k]
FallbackLabels(n) == [k \in 1..n |-> 0]

InitDiarize ==
    /\ AlignOff
    /\ AppOff
    /\ dPc = "ensure"
    /\ audio_file \in AudioLens
    /\ _classifier \in {None, "loaded"}
    /\ audio_len = 0
    /\ duration = 0
    /\ chunks = <<>>
    /\ chunk_times = <<>>
    /\ embeddings = 0
    /\ labels = <<>>
    /\ label_map = <<>>
    /\ segments = <<>>
    /\ encode_calls = 0
    /\ fit_calls = 0
    /\ fit_raised = FALSE

\* line 38, _ensure_model_loaded (lines 20-26): from_hparams returns or raises
EnsureModelLoaded ==
    /\ dPc = "ensure"
    /\ \/ _classifier' = "loaded" /\ dPc' = "load"
       \/ _classifier = None /\ _classifier' = None /\ dPc' = "raised"
    /\ UNCHANGED <<audio_file, audio_len, duration, chunks, chunk_times,
                   embeddings, labels, label_map, segments, encode_calls,
                   fit_calls, fit_raised, alignVars, appVars>>

\* lines 41-42: librosa.load returns the samples or raises
LoadAudio ==
    /\ dPc = "load"
    /\ \/ audio_len' = audio_file /\ duration' = audio_file /\ dPc' = "chunk"
       \/ UNCHANGED <<audio_len, duration>> /\ dPc' = "raised"
    /\ UNCHANGED <<audio_file, _classifier, chunks, chunk_times, embeddings,
                   labels, label_map, segments, encode_calls, fit_calls,
                   fit_raised, alignVars, appVars>>

\* lines 45-60
Chunk ==
    /\ dPc = "chunk"
    /\ chunks' = Chunker(audio_len).chunks
    /\ chunk_times' = Chunker(audio_len).chunk_times
    /\ dPc' = "branch"
    /\ UNCHANGED <<audio_file, _classifier, audio_len, duration, embeddings,
                   labels, label_map, segments, encode_calls, fit_calls,
                   fit_raised, alignVars, appVars>>

\* lines 62-64
ReturnTooShort ==
    /\ dPc = "branch"
    /\ chunks = <<>>
    /\ segments' = TooShortResult(duration)
    /\ dPc' = "done"
    /\ UNCHANGED <<audio_file, _classifier, audio_len, duration, chunks,
                   chunk_times, embeddings, labels, label_map, encode_calls,
                   fit_calls, fit_raised, alignVars, appVars>>

\* lines 67-72, one turn of the loop: encode_batch returns or raises
Embed ==
    /\ dPc \in {"branch", "embed"}
    /\ chunks # <<>>
    /\ embeddings < Len(chunks)
    /\ encode_calls' = encode_calls + 1
    /\ \/ embeddings' = embeddings + 1 /\ dPc' = "embed"
       \/ UNCHANGED embeddings /\ dPc' = "raised"
    /\ UNCHANGED <<audio_file, _classifier, audio_len, duration, chunks,
                   chunk_times, labels, label_map, segments, fit_calls,
                   fit_raised, alignVars, appVars>>

\* lines 77-79: a single chunk is not clustered
ClusterSingle ==
    /\ dPc = "embed"
    /\ embeddings = Len(chunks)
    /\ embeddings < 2
    /\ labels' = SingleLabels
    /\ dPc' = "merge"
    /\ UNCHANGED <<audio_file, _classifier, audio_len, duration, chunks,
                   chunk_times, embeddings, label_map, segments, encode_calls,
                   fit_calls, fit_raised, alignVars, appVars>>

\* lines 80-83: fit_predict returns one label per embedding
ClusterFit ==
    /\ dPc = "embed"
    /\ embeddings = Len(chunks)
    /\ ~(embeddings < 2)
    /\ fit_calls' = fit_calls + 1
    /\ labels' \in [1..embeddings -> RawLabels]
    /\ dPc' = "merge"
    /\ UNCHANGED <<audio_file, _classifier, audio_len, duration, chunks,
                   chunk_times, embeddings, label_map, segments, encode_calls,
                   fit_raised, alignVars, appVars>>

\* lines 80-86: fit_predict raises and the handler labels every chunk 0
ClusterFail ==
    /\ dPc = "embed"
    /\ embeddings = Len(chunks)
    /\ ~(embeddings < 2)
    /\ fit_calls' = fit_calls + 1
    /\ fit_raised' = TRUE
    /\ labels' = FallbackLabels(embeddings)
    /\ dPc' = "merge"
    /\ UNCHANGED <<audio_file, _classifier, audio_len, duration, chunks,
                   chunk_times, embeddings, label_map, segments, encode_calls,
                   alignVars, appVars>>

\* lines 88-113
Merge ==
    /\ dPc = "merge"
    /\ label_map' = LabelMap(labels)
    /\ segments' = Merger(chunk_times, labels)
    /\ dPc' = "done"
    /\ UNCHANGED <<audio_file, _classifier, audio_len, duration, chunks,
                   chunk_times, embeddings, labels, encode_calls, fit_calls,
                   fit_raised, alignVars, appVars>>

NextDiarize ==
    \/ EnsureModelLoaded
    \/ LoadAudio
    \/ Chunk
    \/ ReturnTooShort
    \/ Embed
    \/ ClusterSingle
    \/ ClusterFit
    \/ ClusterFail
    \/ Merge

SpecDiarize == InitDiarize /\ [][NextDiarize]_vars

(***************************************************************************)
(* The application: the main (UI) thread runs the click handlers, the      *)
(* audio thread runs Recorder._callback, and each _stop_recording spawns a *)
(* thread running _process_audio.  Attribute reads and writes are atomic   *)
(* (one bytecode under the interpreter lock), so every shared attribute    *)
(* access of a handler is a step of its own.                               *)
(***************************************************************************)
TITLE_IDLE == "Voice"   \* main.py 22, 82, 152
TITLE_REC == "REC"      \* main.py 52
TITLE_BUSY == "..."     \* main.py 71

\* what the audio callbacks may have accumulated by the time of a stop
RecLens == {n * chunk_length + r :
              n \in 0..MaxRecWindows,
              r \in {SAMPLE_RATE, SAMPLE_RATE * MIN_CHUNK_SEC}}

\* what Transcriber.transcribe may return: up to MaxSpans spans with a
\* non-empty text, one per window of the timeline
SpanList == [k \in 1..MaxSpans |->
                [start |-> (k - 1) * chunk_length,
                 end |-> (k - 1) * chunk_length + SAMPLE_RATE,
                 text |-> IF k % 2 = 1 THEN "hello" ELSE "world"]]
Transcripts == {SubSeq(SpanList, 1, k) : k \in 0..MaxSpans}

\* what Diarizer.diarize may return for a file of len samples (lines 45-113)
DiarizeResults(len) ==
    LET ch == Chunker(len)
        n == Len(ch.chunks)
    IN  IF ch.chunks = <<>> THEN {TooShortResult(len)}
        ELSE {Merger(ch.chunk_times, lbls) :
                lbls \in (IF n < 2 THEN {SingleLabels}
                          ELSE [1..n -> RawLabels] \cup {FallbackLabels(n)})}

\* main.py 39: the guard of toggle_recording
ToggleGuard_open(processing) == FALSE
ToggleGuard(processing) == processing

\* main.py 105-106: what replaces a failed diarization
DiarizeFallback_empty(duration_sec) ==
    [speaker_segments |-> <<>>, speaker_count |-> 0]
DiarizeFallback(duration_sec) ==
    [speaker_segments |-> << <<0, duration_sec, "Speaker 1">> >>,
     speaker_count |-> 1]

\* main.py 114: what replaces a failed transcription
TranscribeFallback == <<>>

\* the locals of a _process_audio thread as it starts (main.py 75-79, 88)
NewThread ==
    [pc |-> "t91", duration_sec |-> 0, speaker_segments |-> <<>>,
     speaker_count |-> 0, transcription_segments |-> <<>>,
     merged_segments |-> <<>>,
     content |-> <<>>,      \* <<>> until line 128 builds it
     caught |-> {},         \* the calls whose exception lines 103, 112 caught
     abort_by |-> None,     \* the call whose exception line 143 caught
     diarize_calls |-> 0, transcribe_calls |-> 0]

RemoveAt(seq, i) == [k \in 1..(Len(seq) - 1) |->
                        IF k < i THEN seq[k] ELSE seq[k + 1]]

\* the main thread is in its run loop (also inside a modal alert), where it
\* serves performSelectorOnMainThread (progress_window.py 16-20)
MainInRunLoop == mPc \in {"idle", "alert"}

Init ==
    /\ AlignOff
    /\ DiarOff
    /\ mPc = "idle"
    /\ _is_recording = FALSE
    /\ _is_processing = FALSE
    /\ title = TITLE_IDLE
    /\ rec = [is_recording |-> FALSE, _stream |-> None, _audio_data |-> 0]
    /\ temp_file \in {NoFile} \cup RecLens
    /\ threads = <<>>
    /\ last_click = None

\* a click on the toggle menu item is dispatched (main.py 36-37)
Click ==
    /\ mPc = "idle"
    /\ mPc' = "m39"
    /\ UNCHANGED <<_is_recording, _is_processing, title, rec, temp_file,
                   threads, last_click, alignVars, diarVars>>

\* toggle_recording, main.py 39-45
ToggleCheck ==
    /\ mPc = "m39"
    /\ IF ToggleGuard(_is_processing)
       THEN mPc' = "idle" /\ last_click' = "ignored"
       ELSE /\ mPc' = (IF ~_is_recording THEN "m50" ELSE "m66")
            /\ UNCHANGED last_click
    /\ UNCHANGED <<_is_recording, _is_processing, title, rec, temp_file,
                   threads, alignVars, diarVars>>

\* _start_recording, main.py 50 with Recorder.start (recorder.py 31-44)
StartRecorder ==
    /\ mPc = "m50"
    /\ IF rec.is_recording
       THEN mPc' = "m51" /\ UNCHANGED <<rec, last_click>>     \* line 33-34
       ELSE \/ /\ rec' = [rec EXCEPT !._audio_data = 0]       \* 37 raises
               /\ mPc' = "alert" /\ last_click' = "start_failed"
            \/ /\ rec' = [rec EXCEPT !._audio_data = 0,       \* 43 raises
                                     !._stream = "created"]
               /\ mPc' = "alert" /\ last_click' = "start_failed"
            \/ /\ rec' = [is_recording |-> TRUE, _stream |-> "active",
                          _audio_data |-> 0]
               /\ mPc' = "m51" /\ UNCHANGED last_click
    /\ UNCHANGED <<_is_recording, _is_processing, title, temp_file, threads,
                   alignVars, diarVars>>

\* main.py 51
SetRecording ==
    /\ mPc = "m51"
    /\ _is_recording' = TRUE
    /\ mPc' = "m52"
    /\ UNCHANGED <<_is_processing, title, rec, temp_file, threads,
                   last_click, alignVars, diarVars>>

\* main.py 52
SetRecTitle ==
    /\ mPc = "m52"
    /\ title' = TITLE_REC
    /\ mPc' = "idle"
    /\ last_click' = "started"
    /\ UNCHANGED <<_is_recording, _is_processing, rec, temp_file, threads,
                   alignVars, diarVars>>

\* rumps.alert returns (main.py 54-62, 83-86)
DismissAlert ==
    /\ mPc = "alert"
    /\ mPc' = "idle"
    /\ UNCHANGED <<_is_recording, _is_processing, title, rec, temp_file,
                   threads, last_click, alignVars, diarVars>>

\* Recorder._callback on the audio thread (recorder.py 19-29)
AudioCallback ==
    /\ mPc # "quit"
    /\ rec._stream = "active"
    /\ \E n \in RecLens :
          /\ n > rec._audio_data
          /\ rec' = [rec EXCEPT !._audio_data = n]
    /\ UNCHANGED <<mPc, _is_recording, _is_processing, title, temp_file,
                   threads, last_click, alignVars, diarVars>>

\* _stop_recording, main.py 66-67
StopCheck ==
    /\ mPc = "m66"
    /\ IF _is_processing
       THEN mPc' = "idle" /\ last_click' = "ignored"
       ELSE mPc' = "m69" /\ UNCHANGED last_click
    /\ UNCHANGED <<_is_recording, _is_processing, title, rec, temp_file,
                   threads, alignVars, diarVars>>

\* main.py 69
SetProcessing ==
    /\ mPc = "m69"
    /\ _is_processing' = TRUE
    /\ mPc' = "m70"
    /\ UNCHANGED <<_is_recording, title, rec, temp_file, threads,
                   last_click, alignVars, diarVars>>

\* main.py 70
ClearRecording ==
    /\ mPc = "m70"
    /\ _is_recording' = FALSE
    /\ mPc' = "m71"
    /\ UNCHANGED <<_is_processing, title, rec, temp_file, threads,
                   last_click, alignVars, diarVars>>

\* main.py 71
SetBusyTitle ==
    /\ mPc = "m71"
    /\ title' = TITLE_BUSY
    /\ mPc' = "m74"
    /\ UNCHANGED <<_is_recording, _is_processing, rec, temp_file, threads,
                   last_click, alignVars, diarVars>>

\* main.py 74 with Recorder.stop (recorder.py 46-70)
StopRecorder ==
    /\ mPc = "m74"
    /\ IF ~rec.is_recording \/ rec._stream = None
       THEN mPc' = "m81" /\ UNCHANGED <<rec, temp_file>>        \* line 54
       ELSE \/ mPc' = "m81" /\ UNCHANGED <<rec, temp_file>>     \* 56-57 raise
            \/ /\ rec' = [rec EXCEPT !._stream = None,
                                     !.is_recording = FALSE]
               /\ IF rec._audio_data = 0
                  THEN mPc' = "m81" /\ UNCHANGED temp_file      \* line 62
                  ELSE \/ mPc' = "m81" /\ UNCHANGED temp_file   \* 64-68 raise
                       \/ mPc' = "m75" /\ temp_file' = rec._audio_data
    /\ UNCHANGED <<_is_recording, _is_processing, title, threads,
                   last_click, alignVars, diarVars>>

\* main.py 75-79: the thread is started, or Thread.start raises
SpawnThread ==
    /\ mPc = "m75"
    /\ \/ /\ Len(threads) < MaxThreads
          /\ threads' = Append(threads, NewThread)
          /\ mPc' = "idle"
          /\ last_click' = "stopped"
       \/ mPc' = "m81" /\ UNCHANGED <<threads, last_click>>
    /\ UNCHANGED <<_is_recording, _is_processing, title, rec, temp_file,
                   alignVars, diarVars>>

\* main.py 81
StopFailedReset ==
    /\ mPc = "m81"
    /\ _is_processing' = FALSE
    /\ mPc' = "m82"
    /\ UNCHANGED <<_is_recording, title, rec, temp_file, threads,
                   last_click, alignVars, diarVars>>

\* main.py 82-86
StopFailedTitle ==
    /\ mPc = "m82"
    /\ title' = TITLE_IDLE
    /\ mPc' = "alert"
    /\ last_click' = "stop_failed"
    /\ UNCHANGED <<_is_recording, _is_processing, rec, temp_file, threads,
                   alignVars, diarVars>>

\* quit_app, main.py 228-231: the process ends, daemon threads with it
QuitApp ==
    /\ mPc = "idle"
    /\ mPc' = "quit"
    /\ UNCHANGED <<_is_recording, _is_processing, title, rec, temp_file,
                   threads, last_click, alignVars, diarVars>>

(***************************************************************************)
(* _process_audio (main.py 88-153), thread i.  A call that raises inside   *)
(* the outer try moves the thread to the handler at line 143.              *)
(***************************************************************************)
Running(i) == i \in DOMAIN threads /\ mPc # "quit"

Goto(i, pc) == [threads EXCEPT ![i].pc = pc]
Abort(i, call) == [threads EXCEPT ![i].pc = "t144", ![i].abort_by = call]

\* line 91: ProgressWindow.show, run on the main thread
ShowProgress(i) ==
    /\ Running(i) /\ threads[i].pc = "t91"
    /\ MainInRunLoop
    /\ \/ threads' = Goto(i, "t94")
       \/ threads' = Abort(i, "show")
    /\ UNCHANGED <<mPc, _is_recording, _is_processing, title, rec, temp_file,
                   last_click, alignVars, diarVars>>

\* lines 94-96: librosa.load of the recorded file
LoadRecording(i) ==
    /\ Running(i) /\ threads[i].pc = "t94"
    /\ \/ /\ temp_file # NoFile
          /\ threads' = [threads EXCEPT ![i].pc = "t99",
                                        ![i].duration_sec = temp_file]
       \/ threads' = Abort(i, "load")
    /\ UNCHANGED <<mPc, _is_recording, _is_processing, title, rec, temp_file,
                   last_click, alignVars, diarVars>>

\* lines 99, 109, 117, 123: ProgressWindow.set_status, run on the main thread
StatusNext(pc) == CASE pc = "t99" -> "t101"
                    [] pc = "t109" -> "t111"
                    [] pc = "t117" -> "t118"
                    [] pc = "t123" -> "t124"

SetStatus(i) ==
    /\ Running(i) /\ threads[i].pc \in {"t99", "t109", "t117", "t123"}
    /\ MainInRunLoop
    /\ \/ threads' = Goto(i, StatusNext(threads[i].pc))
       \/ threads' = Abort(i, "set_status")
    /\ UNCHANGED <<mPc, _is_recording, _is_processing, title, rec, temp_file,
                   last_click, alignVars, diarVars>>

\* lines 100-106: diarize and get_speaker_count, or the fallback
Diarize(i) ==
    /\ Running(i) /\ threads[i].pc = "t101"
    /\ \/ /\ temp_file # NoFile
          /\ \E segs \in DiarizeResults(temp_file) :
                threads' = [threads EXCEPT
                    ![i].pc = "t109",
                    ![i].diarize_calls = @ + 1,
                    ![i].speaker_segments = segs,
                    ![i].speaker_count = get_speaker_count(segs)]
       \/ threads' = [threads EXCEPT
                    ![i].pc = "t109",
                    ![i].diarize_calls = @ + 1,
                    ![i].caught = @ \cup {"diarize"},
                    ![i].speaker_segments =
                        DiarizeFallback(threads[i].duration_sec).speaker_segments,
                    ![i].speaker_count =
                        DiarizeFallback(threads[i].duration_sec).speaker_count]
    /\ UNCHANGED <<mPc, _is_recording, _is_processing, title, rec, temp_file,
                   last_click, alignVars, diarVars>>

\* lines 110-114: transcribe, or the empty list
Transcribe(i) ==
    /\ Running(i) /\ threads[i].pc = "t111"
    /\ \/ \E spans \in Transcripts :
                threads' = [threads EXCEPT
                    ![i].pc = "t117",
                    ![i].transcribe_calls = @ + 1,
                    ![i].transcription_segments = spans]
       \/ threads' = [threads EXCEPT
                    ![i].pc = "t117",
                    ![i].transcribe_calls = @ + 1,
                    ![i].caught = @ \cup {"transcribe"},
                    ![i].transcription_segments = TranscribeFallback]
    /\ UNCHANGED <<mPc, _is_recording, _is_processing, title, rec, temp_file,
                   last_click, alignVars, diarVars>>

\* lines 118-120
Align(i) ==
    /\ Running(i) /\ threads[i].pc = "t118"
    /\ threads' = [threads EXCEPT
            ![i].pc = "t123",
            ![i].merged_segments =
                _assign_speakers(threads[i].transcription_segments,
                                 threads[i].speaker_segments)]
    /\ UNCHANGED <<mPc, _is_recording, _is_processing, title, rec, temp_file,
                   last_click, alignVars, diarVars>>

\* lines 124-131: content is built from (now, duration_str, speaker_count,
\* merged_segments) and written to a new file, or write_text raises
SaveMarkdown(i) ==
    /\ Running(i) /\ threads[i].pc = "t124"
    /\ LET content == << [duration_sec |-> threads[i].duration_sec,
                           speaker_count |-> threads[i].speaker_count,
                           segments |-> threads[i].merged_segments] >>
       IN  \/ threads' = [threads EXCEPT ![i].pc = "t133",
                                         ![i].content = content]
           \/ threads' = [threads EXCEPT ![i].pc = "t144",
                                         ![i].abort_by = "save",
                                         ![i].content = content]
    /\ UNCHANGED <<mPc, _is_recording, _is_processing, title, rec, temp_file,
                   last_click, alignVars, diarVars>>

\* line 133: ProgressWindow.hide, run on the main thread
HideProgress(i) ==
    /\ Running(i) /\ threads[i].pc = "t133"
    /\ MainInRunLoop
    /\ \/ threads' = Goto(i, "t135")
       \/ threads' = Abort(i, "hide")
    /\ UNCHANGED <<mPc, _is_recording, _is_processing, title, rec, temp_file,
                   last_click, alignVars, diarVars>>

\* lines 135-139: rumps.notification
NotifyDone(i) ==
    /\ Running(i) /\ threads[i].pc = "t135"
    /\ \/ threads' = Goto(i, "t141")
       \/ threads' = Abort(i, "notification")
    /\ UNCHANGED <<mPc, _is_recording, _is_processing, title, rec, temp_file,
                   last_click, alignVars, diarVars>>

\* line 141, _cleanup_temp_file (lines 220-226): OSError is swallowed
CleanupTempFile(i) ==
    /\ Running(i) /\ threads[i].pc = "t141"
    /\ temp_file' \in {NoFile, temp_file}
    /\ threads' = Goto(i, "t152")
    /\ UNCHANGED <<mPc, _is_recording, _is_processing, title, rec,
                   last_click, alignVars, diarVars>>

\* line 144, in the handler: hide returns, or raises out of _process_audio
\* and the thread dies
HandlerHide(i) ==
    /\ Running(i) /\ threads[i].pc = "t144"
    /\ MainInRunLoop
    /\ \/ threads' = Goto(i, "t146")
       \/ threads' = Goto(i, "dead")
    /\ UNCHANGED <<mPc, _is_recording, _is_processing, title, rec, temp_file,
                   last_click, alignVars, diarVars>>

\* lines 145-150, in the handler: the notification is posted, or raises out
\* of _process_audio and the thread dies
HandlerNotify(i) ==
    /\ Running(i) /\ threads[i].pc = "t146"
    /\ \/ threads' = Goto(i, "t152")
       \/ threads' = Goto(i, "dead")
    /\ UNCHANGED <<mPc, _is_recording, _is_processing, title, rec, temp_file,
                   last_click, alignVars, diarVars>>

\* line 152
ResetTitle(i) ==
    /\ Running(i) /\ threads[i].pc = "t152"
    /\ title' = TITLE_IDLE
    /\ threads' = Goto(i, "t153")
    /\ UNCHANGED <<mPc, _is_recording, _is_processing, rec, temp_file,
                   last_click, alignVars, diarVars>>

\* line 153, and the thread ends
ResetProcessing(i) ==
    /\ Running(i) /\ threads[i].pc = "t153"
    /\ _is_processing' = FALSE
    /\ threads' = RemoveAt(threads, i)
    /\ UNCHANGED <<mPc, _is_recording, title, rec, temp_file,
                   last_click, alignVars, diarVars>>

ThreadStep(i) ==
    \/ ShowProgress(i)
    \/ LoadRecording(i)
    \/ SetStatus(i)
    \/ Diarize(i)
    \/ Transcribe(i)
    \/ Align(i)
    \/ SaveMarkdown(i)
    \/ HideProgress(i)
    \/ NotifyDone(i)
    \/ CleanupTempFile(i)
    \/ HandlerHide(i)
    \/ HandlerNotify(i)
    \/ ResetTitle(i)
    \/ ResetProcessing(i)

Next ==
    \/ Click
    \/ ToggleCheck
    \/ StartRecorder
    \/ SetRecording
    \/ SetRecTitle
    \/ DismissAlert
    \/ AudioCallback
    \/ StopCheck
    \/ SetProcessing
    \/ ClearRecording
    \/ SetBusyTitle
    \/ StopRecorder
    \/ SpawnThread
    \/ StopFailedReset
    \/ StopFailedTitle
    \/ QuitApp
    \/ \E i \in 1..MaxThreads : ThreadStep(i)

Spec == Init /\ [][Next]_vars

(***************************************************************************)
(* Properties.                                                             *)
(***************************************************************************)
Contains(seg, t) == seg[1] <= t /\ t < seg[2]
Rank(l, S) == Cardinality({x \in S : x <= l})
Chunked == dPc \in {"branch", "embed", "merge", "done"}
Contiguous(segs) ==
    \A i \in 1..(Len(segs) - 1) : segs[i][2] = segs[i + 1][1]
Alternating(segs) ==
    \A i \in 1..(Len(segs) - 1) : segs[i][3] # segs[i + 1][3]
LastEnd(times) == IF times = <<>> THEN 0 ELSE times[Len(times)].end
\* the chunk at which segment j begins
FirstChunkOf(j) == CHOOSE c \in DOMAIN chunk_times :
                       chunk_times[c].start = segments[j][1]

ExampleSegments == << <<0, 5, "Speaker 1">>, <<5, 12, "Speaker 2">> >>
ExampleSpans == << [start |-> 0, end |-> 4, text |-> "hello"],
                   [start |-> 6, end |-> 10, text |-> "world"],
                   [start |-> 20, end |-> 22, text |-> "late"] >>
ExampleRecords ==
    << [speaker |-> "Speaker 1", start |-> 0, end |-> 4, text |-> "hello"],
       [speaker |-> "Speaker 2", start |-> 6, end |-> 10, text |-> "world"],
       [speaker |-> "Unknown", start |-> 20, end |-> 22, text |-> "late"] >>

\* C1: _assign_speakers returns one record per span, in input order, with
\* start, end and text unchanged; the speaker is the label of the first
\* segment in list order whose [start, end) holds the span's start, and it
\* is "Unknown" exactly when no segment holds it; the spec's example gives
\* Speaker 1, Speaker 2, Unknown.
C1_AlignmentFirstMatch ==
    /\ aPc = "done" =>
        /\ Len(merged_segments) = Len(transcription_segments)
        /\ \A i \in DOMAIN transcription_segments :
            LET sp == transcription_segments[i]
                r == merged_segments[i]
                hits == {j \in DOMAIN speaker_segments :
                            Contains(speaker_segments[j], sp.start)}
            IN  /\ r.start = sp.start /\ r.end = sp.end /\ r.text = sp.text
                /\ (r.speaker = "Unknown") <=> (hits = {})
                /\ hits # {} =>
                     r.speaker = speaker_segments[SetMin(hits)][3]
    /\ _assign_speakers(ExampleSpans, ExampleSegments) = ExampleRecords

\* two spans against two overlapping segments listed out of start order: the
\* first span lies in both and got the first one's label, the second lies in
\* neither
C1_Witness ==
    /\ aPc = "done"
    /\ Len(transcription_segments) = 2 /\ Len(speaker_segments) = 2
    /\ speaker_segments[1][1] > speaker_segments[2][1]
    /\ Contains(speaker_segments[1], transcription_segments[1].start)
    /\ Contains(speaker_segments[2], transcription_segments[1].start)
    /\ merged_segments[1].speaker = "Speaker 1"
    /\ merged_segments[2].speaker = "Unknown"

\* C2 as stated: the returned segments are contiguous and alternating, and
\* there are never more segments than kept chunks.
C2_Original ==
    dPc = "done" =>
        /\ Contiguous(segments)
        /\ Alternating(segments)
        /\ Len(segments) <= Len(chunks)

\* C2, amended: the returned segments are contiguous and alternating; there
\* are never more segments than kept chunks when a chunk is kept, and
\* exactly one segment when none is kept.
C2_SegmentsContiguousAlternating ==
    dPc = "done" =>
        /\ Contiguous(segments)
        /\ Alternating(segments)
        /\ chunks # <<>> => Len(segments) <= Len(chunks)
        /\ chunks = <<>> => Len(segments) = 1

\* three chunks merged into two segments
C2_Witness ==
    /\ dPc = "done"
    /\ Len(chunks) = 3
    /\ Len(segments) = 2
    /\ segments[1][2] = segments[2][1]

\* C3 as stated: when a chunk is kept the segments are in start order, do
\* not overlap, start at 0 and end at the audio's duration.
C3_Original ==
    (dPc = "done" /\ chunks # <<>>) =>
        /\ \A i \in 1..(Len(segments) - 1) :
              /\ segments[i][1] <= segments[i + 1][1]
              /\ segments[i][2] <= segments[i + 1][1]
        /\ segments # <<>>
        /\ segments[1][1] = 0
        /\ segments[Len(segments)][2] = duration

\* C3, amended: when a chunk is kept the segments are in start order, do not
\* overlap, start at 0 and end at the last kept chunk's end; that is the
\* audio's duration unless the final window was discarded for having fewer
\* than 2 x sample_rate samples, and then exactly that window is uncovered.
C3_SegmentsCoverKeptChunks ==
    (dPc = "done" /\ chunks # <<>>) =>
        /\ \A i \in 1..(Len(segments) - 1) :
              /\ segments[i][1] <= segments[i + 1][1]
              /\ segments[i][2] <= segments[i + 1][1]
        /\ segments # <<>>
        /\ segments[1][1] = 0
        /\ segments[Len(segments)][2] = LastEnd(chunk_times)
        /\ \/ segments[Len(segments)][2] = duration
           \/ /\ segments[Len(segments)][2] < duration
              /\ audio_len % chunk_length \in
                    1..(SAMPLE_RATE * MIN_CHUNK_SEC - 1)
              /\ duration - segments[Len(segments)][2] =
                    audio_len % chunk_length

\* two segments that stop short of the duration: the final window was dropped
C3_Witness ==
    /\ dPc = "done"
    /\ Len(segments) = 2
    /\ segments[2][2] < duration

\* C4: the display label of a chunk is "Speaker k", k the 1-based rank of its
\* raw label in the ascending distinct raw labels of the run; the map depends
\* on the set of raw labels only, and two chunks share a display label
\* exactly when they share a raw label.
C4_LabelBySortedRank ==
    (dPc = "done" /\ chunks # <<>>) =>
        LET S == SetOf(labels)
        IN  /\ label_map = [l \in S |-> SpeakerName(Rank(l, S))]
            /\ \A c, d \in DOMAIN labels :
                  (label_map[labels[c]] = label_map[labels[d]])
                      <=> (labels[c] = labels[d])
            /\ \A c \in DOMAIN labels :
                  \E j \in DOMAIN segments :
                      /\ segments[j][1] <= chunk_times[c].start
                      /\ chunk_times[c].end <= segments[j][2]
                      /\ segments[j][3] = SpeakerName(Rank(labels[c], S))

\* raw labels 2 then 0: label 2 is "Speaker 2" although it is seen first and
\* label 1 is absent
C4_Witness ==
    /\ dPc = "done"
    /\ Len(labels) >= 2
    /\ labels[1] = 2 /\ labels[2] = 0
    /\ SetOf(labels) = {0, 2}
    /\ label_map[2] = "Speaker 2"
    /\ label_map[0] = "Speaker 1"

\* C5 as stated: the n of "Speaker n" is the position at which the segment's
\* cluster label first appears among the distinct labels of the chunk
\* sequence, so the first segment is "Speaker 1" and "Speaker n+1" never
\* occurs before "Speaker n".
C5_Original ==
    (dPc = "done" /\ chunks # <<>>) =>
        /\ segments # <<>>
        /\ segments[1][3] = "Speaker 1"
        /\ \A j \in DOMAIN segments :
              LET l == labels[FirstChunkOf(j)]
                  first == CHOOSE k \in DOMAIN labels :
                              /\ labels[k] = l
                              /\ \A m \in 1..(k - 1) : labels[m] # l
              IN  segments[j][3] =
                      SpeakerName(Cardinality({labels[m] : m \in 1..first}))

\* C5, amended: the n of "Speaker n" in a returned segment is the 1-based
\* rank of the segment's raw cluster label among the distinct raw labels in
\* ascending order; the first segment is "Speaker 1" exactly when the first
\* chunk carries the smallest raw label, and the numbers that occur are
\* exactly 1..k for k distinct raw labels.
C5_SpeakerNumberIsRank ==
    (dPc = "done" /\ chunks # <<>>) =>
        LET S == SetOf(labels)
        IN  /\ segments # <<>>
            /\ \A j \in DOMAIN segments :
                  segments[j][3] =
                      SpeakerName(Rank(labels[FirstChunkOf(j)], S))
            /\ (segments[1][3] = "Speaker 1") <=> (labels[1] = SetMin(S))
            /\ {segments[j][3] : j \in DOMAIN segments} =
                  {SpeakerName(k) : k \in 1..Cardinality(S)}

\* the first segment is "Speaker 2" and "Speaker 1" comes after it
C5_Witness ==
    /\ dPc = "done"
    /\ Len(segments) = 2
    /\ segments[1][3] = "Speaker 2"
    /\ segments[2][3] = "Speaker 1"

\* C6: the kept chunks' ranges start at 0, are gapless, end at or before the
\* duration and cover [0, duration) but for one trailing gap, which exists
\* only when the final window had fewer than 2 x sample_rate samples; a
\* zero-padded final window keeps its real range.
C6_ChunkCoverage ==
    Chunked =>
        LET n == Len(chunk_times)
            tail == audio_len % chunk_length
        IN  /\ Len(chunks) = n
            /\ n > 0 => chunk_times[1].start = 0
            /\ \A k \in 1..n :
                  /\ chunk_times[k].start < chunk_times[k].end
                  /\ chunk_times[k].end <= duration
            /\ \A k \in 1..(n - 1) :
                  chunk_times[k].end = chunk_times[k + 1].start
            /\ \/ LastEnd(chunk_times) = duration
               \/ /\ LastEnd(chunk_times) < duration
                  /\ tail \in 1..(SAMPLE_RATE * MIN_CHUNK_SEC - 1)
                  /\ duration - LastEnd(chunk_times) = tail
            /\ \A k \in 1..n :
                  chunks[k].raw < chunk_length =>
                      /\ k = n
                      /\ chunks[k].samples = chunk_length
                      /\ chunk_times[k].end = duration
                      /\ chunk_times[k].end - chunk_times[k].start
                            = chunks[k].raw

\* two full chunks and a zero-padded third
C6_Witness ==
    /\ Chunked
    /\ Len(chunk_times) = 3
    /\ chunks[3].raw < chunk_length
    /\ chunks[3].samples = chunk_length
    /\ chunk_times[3].end = duration

\* C7: when no window has 2 x sample_rate samples diarize returns exactly
\* (0, duration, "Speaker 1") and calls neither encode_batch nor
\* fit_predict; one second of audio gives (0.0, 1.0, "Speaker 1").
C7_TooShortSingleSegment ==
    /\ Chunked =>
          (chunks = <<>>) <=> (audio_len < SAMPLE_RATE * MIN_CHUNK_SEC)
    /\ (Chunked /\ chunks = <<>>) =>
          /\ dPc \in {"branch", "done"}
          /\ encode_calls = 0
          /\ fit_calls = 0
    /\ (dPc = "done" /\ chunks = <<>>) =>
          segments = << <<0, duration, "Speaker 1">> >>
    /\ (dPc = "done" /\ audio_len = SAMPLE_RATE) =>
          segments = << <<0, SAMPLE_RATE, "Speaker 1">> >>

\* diarize returned for one second of audio
C7_Witness ==
    /\ dPc = "done"
    /\ audio_len = SAMPLE_RATE
    /\ chunks = <<>>
    /\ Len(segments) = 1

\* C8: when two or more chunks are kept and fit_predict raises, diarize goes
\* on: every chunk gets the same label and the result is one "Speaker 1"
\* segment from the first chunk's start to the last chunk's end; with one
\* kept chunk fit_predict is not called and the result is one segment
\* spanning that chunk.
C8_ClusterFailureFallback ==
    /\ fit_raised =>
          /\ dPc \in {"merge", "done"}
          /\ Len(chunks) >= 2
          /\ Len(labels) = Len(chunks)
          /\ \A c \in DOMAIN labels : labels[c] = labels[1]
    /\ (dPc = "done" /\ fit_raised) =>
          segments = << <<chunk_times[1].start, LastEnd(chunk_times),
                          "Speaker 1">> >>
    /\ (dPc \in {"merge", "done"} /\ Len(chunks) = 1) =>
          fit_calls = 0
    /\ (dPc = "done" /\ Len(chunks) = 1) =>
          /\ Len(segments) = 1
          /\ segments[1][1] = chunk_times[1].start
          /\ segments[1][2] = chunk_times[1].end

\* fit_predict raised over three chunks and diarize returned
C8_Witness ==
    /\ dPc = "done"
    /\ fit_raised
    /\ Len(chunks) = 3
    /\ Len(segments) = 1

\* the _process_audio runs that have not ended
InFlight == {i \in DOMAIN threads : threads[i].pc # "dead"}
\* the positions of _process_audio outside the handler of line 143
AfterDiarize == {"t109", "t111", "t117", "t118", "t123", "t124", "t133",
                 "t135", "t141", "t152", "t153"}
AfterAlign == {"t123", "t124", "t133", "t135", "t141"}

\* C9: at most one _process_audio run is in flight at any time (and
\* _is_processing is set while one is); a click handled while
\* _is_processing is set returns at once and leaves the flags, the title,
\* the recorder, the recorded file and the threads as they were.
C9_OneRunAndClicksIgnored ==
    /\ [](Cardinality(InFlight) <= 1 /\ (InFlight # {} => _is_processing))
    /\ [][(mPc = "m39" /\ mPc' # mPc /\ _is_processing) =>
            /\ mPc' = "idle"
            /\ UNCHANGED <<_is_recording, _is_processing, title, rec,
                           temp_file, threads>>]_vars

\* a click was ignored while a run is in flight
C9_Witness ==
    /\ mPc = "idle"
    /\ last_click = "ignored"
    /\ _is_processing
    /\ Cardinality(InFlight) = 1
    /\ ~_is_recording /\ ~rec.is_recording

\* C10: in a run, diarize and transcribe are each called at most once; an
\* exception of diarize leaves the run on its path with the single segment
\* (0, duration, "Speaker 1") and speaker count 1, an exception of
\* transcribe leaves it there with an empty transcript and alignment then
\* yields no record; neither is what sends a run to the handler, and the
\* document built after them carries the substituted values.
C10_FailuresAbsorbed ==
    \A i \in DOMAIN threads :
        LET th == threads[i]
        IN  /\ th.diarize_calls <= 1
            /\ th.transcribe_calls <= 1
            /\ th.abort_by \notin {"diarize", "transcribe"}
            /\ th.caught # {} /\ th.abort_by = None => th.pc \in AfterDiarize
            /\ "diarize" \in th.caught =>
                  /\ th.speaker_segments =
                        << <<0, th.duration_sec, "Speaker 1">> >>
                  /\ th.speaker_count = 1
            /\ "transcribe" \in th.caught =>
                  /\ th.transcription_segments = <<>>
                  /\ th.pc \in AfterAlign => th.merged_segments = <<>>
            /\ th.content # <<>> =>
                  /\ th.content[1].duration_sec = th.duration_sec
                  /\ "diarize" \in th.caught =>
                        th.content[1].speaker_count = 1
                  /\ "transcribe" \in th.caught =>
                        th.content[1].segments = <<>>

\* both calls raised and the run has written its document
C10_Witness ==
    \E i \in DOMAIN threads :
        /\ threads[i].pc = "t133"
        /\ threads[i].caught = {"diarize", "transcribe"}
        /\ threads[i].abort_by = None
        /\ threads[i].duration_sec > 0
        /\ threads[i].content =
              << [duration_sec |-> threads[i].duration_sec,
                  speaker_count |-> 1, segments |-> <<>>] >>

\* no _process_audio thread is running and the main thread is back in its
\* run loop: every run started so far has ended
Quiescent == InFlight = {} /\ MainInRunLoop

\* C11: every processing run ends with _is_processing reset to false and
\* the title reset to idle, whichever of its steps raise, and also when
\* Recorder.stop raises before the thread is spawned: once every run has
\* ended the application is not left in the processing state, so a later
\* click is not ignored.
C11_RunsEndReset ==
    Quiescent => (~_is_processing /\ title # TITLE_BUSY)

====
